---------------------------- MODULE Spec2Model ----------------------------
(***************************************************************************)
(* Model of the co-parenting Telegram filter bot: configuration            *)
(* (src/config.py), the classification pipeline (src/bot/filters.py) and   *)
(* the message handler (src/bot/handlers.py).                              *)
(*                                                                         *)
(* Strings whose content the code inspects are sequences of one-character  *)
(* strings (usernames, message text) or sequences of JSON tokens (the      *)
(* classifier's reply).  Python values are records (PyVal).  A call        *)
(* that may raise yields a record [kind, value, exc].                      *)
(***************************************************************************)
EXTENDS Integers, Sequences, FiniteSets, TLC

(***************************************************************************)
(* Bounds of the model.                                                    *)
(***************************************************************************)
\* longest token sequence enumerated exhaustively as a raw classifier reply
MaxRawLen == 3
\* longest message text (in characters) a chat update carries
MaxTextLen == 2
\* longest sender username (in characters)
MaxNameLen == 2

(***************************************************************************)
(* Python values.                                                          *)
(***************************************************************************)
EmptyDict == [k \in {} |-> "none"]

\* a value: its type, and its payload as text (s), items (a list) or map (a dict)
PyVal(type, s, items, map) == [type |-> type, s |-> s, items |-> items, map |-> map]
PyNone == PyVal("null", "None", <<>>, EmptyDict)
PyBool(b) == PyVal("bool", IF b THEN "True" ELSE "False", <<>>, EmptyDict)
PyStr(s) == PyVal("str", s, <<>>, EmptyDict)
PyNum(n) == PyVal("num", n, <<>>, EmptyDict)
PyList(items) == PyVal("array", "", items, EmptyDict)
PyDict(f) == PyVal("object", "", <<>>, f)

\* d[key] = val on a dict held as a function from its keys
DictSet(f, key, val) ==
    [k \in (DOMAIN f) \cup {key} |-> IF k = key THEN val ELSE f[k]]

\* dict.get(key, default)
DictGet(f, key, default) == IF key \in DOMAIN f THEN f[key] ELSE default

\* bool(x), as the `if` statement applies it
Truthy(x) ==
    CASE x.type = "bool" -> x.s = "True"
      [] x.type = "null" -> FALSE
      [] x.type = "str" -> x.s # ""
      [] x.type = "num" -> x.s # "0"
      [] x.type = "array" -> x.items # <<>>
      [] x.type = "object" -> DOMAIN x.map # {}

\* hash(x) is defined (lists and dicts are unhashable)
Hashable(x) == x.type \notin {"array", "object"}

(***************************************************************************)
(* Outcome of a call: a returned value or a raised exception.              *)
(***************************************************************************)
Return(val) == [kind |-> "return", value |-> val, exc |-> "none"]
Raise(e) == [kind |-> "raise", value |-> PyNone, exc |-> e]

\* direct base class of each exception class the code can meet
ExcParent ==
    [ JSONDecodeError |-> "ValueError",
      ValueError |-> "Exception",
      KeyError |-> "LookupError",
      LookupError |-> "Exception",
      AttributeError |-> "Exception",
      TypeError |-> "Exception",
      RuntimeError |-> "Exception",
      RateLimitError |-> "APIStatusError",
      APIStatusError |-> "APIError",
      APITimeoutError |-> "APIConnectionError",
      APIConnectionError |-> "APIError",
      APIError |-> "OpenAIError",
      OpenAIError |-> "Exception",
      TelegramError |-> "Exception",
      Exception |-> "BaseException" ]

RECURSIVE IsInstance(_, _)
\* isinstance(e, cls) for an exception of class exc
IsInstance(exc, cls) ==
    IF exc = cls THEN TRUE
    ELSE IF exc \in DOMAIN ExcParent THEN IsInstance(ExcParent[exc], cls)
    ELSE FALSE

\* an `except (c1, c2, ...)` clause catches exc
Catches(classes, exc) == \E c \in classes : IsInstance(exc, c)

(***************************************************************************)
(* JSON text as a sequence of tokens, and json.loads on it.                *)
(***************************************************************************)
Tok(t, v) == [t |-> t, v |-> v]
LBRACE == Tok("punct", "{")
RBRACE == Tok("punct", "}")
LBRACK == Tok("punct", "[")
RBRACK == Tok("punct", "]")
COLON == Tok("punct", ":")
COMMA == Tok("punct", ",")
WS == Tok("ws", " ")
TRUE_ == Tok("lit", "true")
FALSE_ == Tok("lit", "false")
NULL_ == Tok("lit", "null")
STR(s) == Tok("str", s)
NUM(n) == Tok("num", n)
\* a word that is not JSON (prose, a markdown fence)
WORD(s) == Tok("word", s)

\* first index at or after i that holds no whitespace (Len(s) + 1 at the end)
SkipWs(s, i) ==
    LET cand == { j \in i .. (Len(s) + 1) : (j = Len(s) + 1) \/ (s[j] # WS) }
    IN  CHOOSE j \in cand : \A k \in cand : j <= k

ScanFail == [ok |-> FALSE, val |-> PyNone, next |-> 0]
ScanOk(val, next) == [ok |-> TRUE, val |-> val, next |-> next]

RECURSIVE scan_once(_, _)
RECURSIVE JSONObjectMembers(_, _, _)
RECURSIVE JSONArrayItems(_, _, _)

\* the members of an object from the key token at j on; acc holds the pairs
\* read so far (a repeated key keeps its last value)
JSONObjectMembers(s, j, acc) ==
    LET c == SkipWs(s, j + 1)
    IN  IF c > Len(s) THEN ScanFail
        ELSE IF s[c] # COLON THEN ScanFail
        ELSE LET r == scan_once(s, SkipWs(s, c + 1))
             IN  IF ~r.ok THEN ScanFail
                 ELSE LET acc2 == DictSet(acc, s[j].v, r.val)
                          e == SkipWs(s, r.next)
                      IN  IF e > Len(s) THEN ScanFail
                          ELSE IF s[e] = RBRACE THEN ScanOk(PyDict(acc2), e + 1)
                          ELSE IF s[e] # COMMA THEN ScanFail
                          ELSE LET k2 == SkipWs(s, e + 1)
                               IN  IF k2 > Len(s) THEN ScanFail
                                   ELSE IF s[k2].t # "str" THEN ScanFail
                                   ELSE JSONObjectMembers(s, k2, acc2)

\* an object, from the token after its opening brace
JSONObject(s, i) ==
    LET j == SkipWs(s, i)
    IN  IF j > Len(s) THEN ScanFail
        ELSE IF s[j] = RBRACE THEN ScanOk(PyDict(EmptyDict), j + 1)
        ELSE IF s[j].t # "str" THEN ScanFail
        ELSE JSONObjectMembers(s, j, EmptyDict)

\* the items of an array from the value at i on; acc holds the items so far
JSONArrayItems(s, i, acc) ==
    LET r == scan_once(s, i)
    IN  IF ~r.ok THEN ScanFail
        ELSE LET acc2 == Append(acc, r.val)
                 e == SkipWs(s, r.next)
             IN  IF e > Len(s) THEN ScanFail
                 ELSE IF s[e] = RBRACK THEN ScanOk(PyList(acc2), e + 1)
                 ELSE IF s[e] # COMMA THEN ScanFail
                 ELSE JSONArrayItems(s, SkipWs(s, e + 1), acc2)

\* an array, from the token after its opening bracket
JSONArray(s, i) ==
    LET j == SkipWs(s, i)
    IN  IF j > Len(s) THEN ScanFail
        ELSE IF s[j] = RBRACK THEN ScanOk(PyList(<<>>), j + 1)
        ELSE JSONArrayItems(s, j, <<>>)

\* one JSON value starting exactly at i
scan_once(s, i) ==
    IF i > Len(s) THEN ScanFail
    ELSE LET c == s[i]
         IN  CASE c.t = "str" -> ScanOk(PyStr(c.v), i + 1)
               [] c = LBRACE -> JSONObject(s, i + 1)
               [] c = LBRACK -> JSONArray(s, i + 1)
               [] c = TRUE_ -> ScanOk(PyBool(TRUE), i + 1)
               [] c = FALSE_ -> ScanOk(PyBool(FALSE), i + 1)
               [] c = NULL_ -> ScanOk(PyNone, i + 1)
               [] c.t = "num" -> ScanOk(PyNum(c.v), i + 1)
               [] OTHER -> ScanFail

\* JSONDecoder.decode after the scan r of the first value: nothing but
\* whitespace may follow it
decode(s, r) ==
    IF ~r.ok THEN Raise("JSONDecodeError")
    ELSE IF SkipWs(s, r.next) # Len(s) + 1 THEN Raise("JSONDecodeError")
    ELSE Return(r.val)

\* json.loads(s): one value between optional whitespace, nothing after it
json_loads(s) == decode(s, scan_once(s, SkipWs(s, 1)))

\* str.strip() on a token sequence
RECURSIVE StripTokens(_)
StripTokens(s) ==
    IF s = <<>> THEN s
    ELSE IF Head(s) = WS THEN StripTokens(Tail(s))
    ELSE IF s[Len(s)] = WS THEN StripTokens(SubSeq(s, 1, Len(s) - 1))
    ELSE s

(***************************************************************************)
(* Raw texts handed to the parser.  Each input carries, from the way it is *)
(* built, what it spells: shape "object" (with the members it spells),     *)
(* "value" (valid JSON that is not an object) or "invalid".                *)
(***************************************************************************)
RawInput(raw, shape, members) == [raw |-> raw, shape |-> shape, members |-> members]

\* a JSON value as written (toks) and as the Python value it denotes (val)
Written(toks, val) == [toks |-> toks, val |-> val]
Absent == [toks |-> <<>>, val |-> PyNone, present |-> FALSE]
Present(w) == [toks |-> w.toks, val |-> w.val, present |-> TRUE]

WTrue == Written(<<TRUE_>>, PyBool(TRUE))
WFalse == Written(<<FALSE_>>, PyBool(FALSE))
WNull == Written(<<NULL_>>, PyNone)
WStr(s) == Written(<<STR(s)>>, PyStr(s))
WNum(n) == Written(<<NUM(n)>>, PyNum(n))
WEmptyList == Written(<<LBRACK, RBRACK>>, PyList(<<>>))
WEmptyDict == Written(<<LBRACE, RBRACE>>, PyDict(EmptyDict))
WListOf(w) == Written(<<LBRACK>> \o w.toks \o <<RBRACK>>, PyList(<<w.val>>))

\* "key": value, written compactly or with a space after the colon
MemberToks(key, opt, spaced) ==
    <<STR(key), COLON>> \o (IF spaced THEN <<WS>> ELSE <<>>) \o opt.toks

RECURSIVE JoinMembers(_, _)
\* the written members separated by commas
JoinMembers(ms, spaced) ==
    IF ms = <<>> THEN <<>>
    ELSE IF Len(ms) = 1 THEN ms[1]
    ELSE ms[1] \o <<COMMA>> \o (IF spaced THEN <<WS>> ELSE <<>>)
               \o JoinMembers(Tail(ms), spaced)

\* the members an object text spells, as a dict
MembersOf(a, r, c) ==
    LET d0 == EmptyDict
        d1 == IF a.present THEN DictSet(d0, "allow", a.val) ELSE d0
        d2 == IF r.present THEN DictSet(d1, "reason", r.val) ELSE d1
    IN  IF c.present THEN DictSet(d2, "category", c.val) ELSE d2

\* the text of an object with the given optional members
ObjectText(a, r, c, spaced) ==
    LET ms == (IF a.present THEN << MemberToks("allow", a, spaced) >> ELSE <<>>)
              \o (IF r.present THEN << MemberToks("reason", r, spaced) >> ELSE <<>>)
              \o (IF c.present THEN << MemberToks("category", c, spaced) >> ELSE <<>>)
    IN  <<LBRACE>> \o JoinMembers(ms, spaced) \o <<RBRACE>>

ObjectInput(a, r, c, spaced) ==
    RawInput(ObjectText(a, r, c, spaced), "object", MembersOf(a, r, c))

\* values the classifier may write under each key
AllowOptions ==
    {Absent} \cup { Present(w) : w \in {WTrue, WFalse, WNull, WStr("false"),
                                         WNum("0"), WNum("1"), WEmptyList} }
ReasonOptions ==
    {Absent} \cup { Present(w) : w \in {WStr("Test reason"), WStr(""),
                                         WStr("No reason provided"), WNull, WNum("0")} }
CategoryOptions ==
    {Absent} \cup { Present(w) : w \in {WStr("test"), WStr(""), WStr("performative"),
                                         WEmptyList, WEmptyDict} }

ObjectInputs ==
    { ObjectInput(a, r, c, sp) :
        a \in AllowOptions, r \in ReasonOptions, c \in CategoryOptions,
        sp \in BOOLEAN }

\* the token alphabet of the exhaustively enumerated texts
Alphabet ==
    {LBRACE, RBRACE, LBRACK, RBRACK, COLON, COMMA, WS,
     TRUE_, NULL_, STR("allow"), NUM("0"), WORD("Sure")}

SeqsUpTo(S, n) == UNION { [1..k -> S] : k \in 0..n }

\* s without its whitespace tokens
Squeeze(s) == SelectSeq(s, LAMBDA t : t # WS)

\* the valid JSON texts without whitespace of at most six tokens over Alphabet,
\* generated from the grammar
AlphabetScalars == {WTrue, WNull, WStr("allow"), WNum("0")}
GrammarBase == AlphabetScalars \cup {WEmptyList, WEmptyDict}
GrammarWrap(S) == { WListOf(w) : w \in S }
GrammarPairs ==
    { Written(<<LBRACK>> \o v.toks \o <<COMMA>> \o w.toks \o <<RBRACK>>,
              PyList(<<v.val, w.val>>)) : v \in GrammarBase, w \in GrammarBase }
GrammarObjects ==
    { Written(<<LBRACE, STR("allow"), COLON>> \o v.toks \o <<RBRACE>>,
              PyDict(DictSet(EmptyDict, "allow", v.val))) : v \in GrammarBase }
ValidCore ==
    GrammarBase \cup GrammarWrap(GrammarBase) \cup GrammarWrap(GrammarWrap(GrammarBase))
        \cup GrammarPairs \cup GrammarObjects

\* an enumerated text with the shape the grammar gives it
EnumeratedInput(raw) ==
    LET hits == { w \in ValidCore : w.toks = Squeeze(raw) }
    IN  IF hits = {} THEN RawInput(raw, "invalid", EmptyDict)
        ELSE LET w == CHOOSE w \in hits : TRUE
             IN  IF w.val.type = "object" THEN RawInput(raw, "object", w.val.map)
                 ELSE RawInput(raw, "value", EmptyDict)

EnumeratedInputs == { EnumeratedInput(raw) : raw \in SeqsUpTo(Alphabet, MaxRawLen) }

\* replies seen from chat models that are not pure JSON
FullObjectText == ObjectText(Present(WTrue), Present(WStr("Test reason")),
                             Present(WStr("test")), TRUE)
MalformedInputs ==
    { RawInput(raw, "invalid", EmptyDict) : raw \in
        { <<WORD("not"), WS, WORD("json")>>,
          <<WORD("~~~json"), WS>> \o FullObjectText \o <<WS, WORD("~~~")>>,
          <<WORD("Sure"), WS>> \o FullObjectText,
          SubSeq(FullObjectText, 1, Len(FullObjectText) - 1),
          SubSeq(FullObjectText, 1, 4) \o <<COMMA, RBRACE>>,
          FullObjectText \o FullObjectText } }

\* valid JSON whose top-level value is not an object
ValueInputs ==
    { RawInput(w.toks, "value", EmptyDict) : w \in
        { WTrue, WFalse, WNull, WNum("1"), WStr("allow"), WEmptyList,
          WListOf(Written(FullObjectText, PyNone)) } }

\* an object padded with whitespace, and one repeating a key
ExtraObjectInputs ==
    { RawInput(<<WS>> \o FullObjectText \o <<WS, WS>>, "object",
               MembersOf(Present(WTrue), Present(WStr("Test reason")), Present(WStr("test")))),
      RawInput(<<LBRACE, STR("allow"), COLON, TRUE_, COMMA,
                 STR("allow"), COLON, FALSE_, RBRACE>>, "object",
               MembersOf(Present(WFalse), Absent, Absent)),
      RawInput(<<LBRACE, STR("verdict"), COLON, TRUE_, RBRACE>>, "object",
               DictSet(EmptyDict, "verdict", PyBool(TRUE))) }

RawInputs ==
    ObjectInputs \cup EnumeratedInputs \cup MalformedInputs \cup ValueInputs
        \cup ExtraObjectInputs

(***************************************************************************)
(* src/bot/filters.py: ModerationResponse                                  *)
(***************************************************************************)
ModerationResponse(allow, reason, category) ==
    [allow |-> allow, reason |-> reason, category |-> category]

ParsingErrorResponse ==
    ModerationResponse(PyBool(FALSE),
                       PyStr("Message could not be properly evaluated"),
                       PyStr("parsing_error"))

\* mutant: the handler of from_json catches KeyError only
from_json_body_KeyErrorOnly(r) ==
    IF r.kind = "raise"
    THEN IF Catches({"KeyError"}, r.exc) THEN Return(ParsingErrorResponse) ELSE r
    ELSE IF r.value.type # "object" THEN Raise("AttributeError")
    ELSE Return(ModerationResponse(
                    DictGet(r.value.map, "allow", PyBool(FALSE)),
                    DictGet(r.value.map, "reason", PyStr("No reason provided")),
                    DictGet(r.value.map, "category", PyStr(""))))

\* mutant: a missing "allow" defaults to True
from_json_body_AllowByDefault(r) ==
    IF r.kind = "raise"
    THEN IF Catches({"JSONDecodeError", "KeyError"}, r.exc)
         THEN Return(ParsingErrorResponse) ELSE r
    ELSE IF r.value.type # "object" THEN Raise("AttributeError")
    ELSE Return(ModerationResponse(
                    DictGet(r.value.map, "allow", PyBool(TRUE)),
                    DictGet(r.value.map, "reason", PyStr("No reason provided")),
                    DictGet(r.value.map, "category", PyStr(""))))

\* the try statement of from_json, r being what json.loads returned or raised:
\* data.get exists on a dict only, and the handler catches
\* json.JSONDecodeError and KeyError
from_json_body(r) ==
    IF r.kind = "raise"
    THEN IF Catches({"JSONDecodeError", "KeyError"}, r.exc)
         THEN Return(ParsingErrorResponse) ELSE r
    ELSE IF r.value.type # "object"
    THEN IF Catches({"JSONDecodeError", "KeyError"}, "AttributeError")
         THEN Return(ParsingErrorResponse) ELSE Raise("AttributeError")
    ELSE Return(ModerationResponse(
                    DictGet(r.value.map, "allow", PyBool(FALSE)),
                    DictGet(r.value.map, "reason", PyStr("No reason provided")),
                    DictGet(r.value.map, "category", PyStr(""))))

\* ModerationResponse.from_json
from_json(json_str) == from_json_body(json_loads(json_str))

(***************************************************************************)
(* Character strings: sequences of one-character strings.                  *)
(***************************************************************************)
NoneStr == [isNone |-> TRUE, s |-> <<>>]
Some(s) == [isNone |-> FALSE, s |-> s]

LowerChar(c) == IF c = "A" THEN "a" ELSE IF c = "B" THEN "b" ELSE c

\* str.lower()
Lower(s) == [i \in 1..Len(s) |-> LowerChar(s[i])]

RECURSIVE LStrip(_, _)
\* str.lstrip(chars)
LStrip(s, chars) ==
    IF s = <<>> THEN s
    ELSE IF Head(s) \in chars THEN LStrip(Tail(s), chars)
    ELSE s

RECURSIVE RStrip(_, _)
RStrip(s, chars) ==
    IF s = <<>> THEN s
    ELSE IF s[Len(s)] \in chars THEN RStrip(SubSeq(s, 1, Len(s) - 1), chars)
    ELSE s

Whitespace == {" "}

\* str.strip()
Strip(s) == RStrip(LStrip(s, Whitespace), Whitespace)

(***************************************************************************)
(* src/config.py                                                           *)
(***************************************************************************)
MODERATION_PROFILES ==
    [ manipulative_coparent |->
        [ name |-> "Manipulative Co-Parent",
          description |-> "Someone who tends toward performative behavior, narrative crafting, and inconsistent actions",
          behaviors |-> << "performative posturing without follow-through",
                           "crafting narratives about being good while failing to take positive action",
                           "manipulative language designed to appear reasonable",
                           "deflection from actual logistics to emotional manipulation",
                           "making themselves appear as the victim or hero",
                           "saying the right things but consistently failing to act",
                           "using guilt, blame, or emotional pressure instead of facts",
                           "grandstanding or virtue signaling without substance" >>,
          permissive_mode |-> TRUE ],
      standard |->
        [ name |-> "Standard Moderation",
          description |-> "Basic co-parenting topic filtering",
          behaviors |-> <<>>,
          permissive_mode |-> TRUE ] ]

\* the table after a deployment has added a profile that blocks on failure
\* and one that leaves the flag out (classify reads the flag with a default)
EditedProfiles ==
    [ manipulative_coparent |-> MODERATION_PROFILES.manipulative_coparent,
      standard |-> MODERATION_PROFILES.standard,
      strict |->
        [ name |-> "Strict Moderation",
          description |-> "Blocks when the message cannot be evaluated",
          behaviors |-> << "off-topic discussion" >>,
          permissive_mode |-> FALSE ],
      legacy |->
        [ name |-> "Legacy Moderation",
          description |-> "A profile written without the flag",
          behaviors |-> <<>> ] ]

ProfileTables == {MODERATION_PROFILES, EditedProfiles}
ProfileNames == {"manipulative_coparent", "standard", "strict", "legacy", "unknown"}

\* values of the TARGET_USERNAME environment variable
TargetUsernames ==
    { <<"a">>, <<"@", "A">>, <<" ", "@", "a", "b", " ">>, <<"@", "@", "b">>, <<"@">> }

VARIABLES
    BOT_TOKEN,            \* Config.BOT_TOKEN
    OPENAI_API_KEY,       \* Config.OPENAI_API_KEY
    TARGET_USERNAME,      \* Config.TARGET_USERNAME
    MODERATION_PROFILE,   \* Config.MODERATION_PROFILE
    profile_table,        \* the module-level dict MODERATION_PROFILES
    client,               \* filters.client is an OpenAI client (FALSE: None)
    phase,                \* "start", "polling", "aborted"; "test" for direct calls
    pc,                   \* position of handle_message for the current update
    update,               \* the update being handled
    call,                 \* outcome of the request made for this update
    requests,             \* requests sent to the service for this update
    moderation_result,    \* what classify returned or raised
    deleted,              \* bot.delete_message: "not_called", "ok", "failed"
    sent,                 \* bot.send_message: "not_called", "ok", "failed"
    warning_text,         \* the text passed to bot.send_message
    handler_exc,          \* exception that left handle_message ("none")
    json_input,           \* text given to a direct call of from_json
    parsed,               \* what that call returned or raised
    handlers,             \* the handlers registered with the application
    profile_result,       \* what a direct call of get_moderation_profile gave
    prompt,               \* what a direct call of _build_system_prompt gave
    pc2,                  \* the same fields as pc .. handler_exc, for a second
    update2,              \*   update whose handling overlaps the first one's
    call2,
    requests2,
    moderation_result2,
    deleted2,
    sent2,
    warning_text2,
    handler_exc2

vars == << BOT_TOKEN, OPENAI_API_KEY, TARGET_USERNAME, MODERATION_PROFILE,
           profile_table, client, phase, pc, update, call, requests,
           moderation_result, deleted, sent, warning_text, handler_exc,
           json_input, parsed, handlers, profile_result, prompt,
           pc2, update2, call2, requests2, moderation_result2, deleted2, sent2,
           warning_text2, handler_exc2 >>

configVars == << BOT_TOKEN, OPENAI_API_KEY, TARGET_USERNAME, MODERATION_PROFILE,
                 profile_table, client >>
handlerVars == << pc, update, call, requests, moderation_result, deleted, sent,
                  warning_text, handler_exc >>
parserVars == << json_input, parsed >>
appVars == << phase, handlers >>
setupVars == << profile_result, prompt >>
handler2Vars == << pc2, update2, call2, requests2, moderation_result2, deleted2,
                   sent2, warning_text2, handler_exc2 >>

\* mutant: the profile name is not validated
validate_CredentialsOnly ==
    IF BOT_TOKEN = "" \/ OPENAI_API_KEY = ""
    THEN Raise("ValueError")
    ELSE Return(PyNone)

\* Config.validate
validate ==
    IF BOT_TOKEN = "" \/ OPENAI_API_KEY = ""
           \/ MODERATION_PROFILE \notin DOMAIN profile_table
    THEN Raise("ValueError")
    ELSE Return(PyNone)

\* Config.get_target_username_normalized
get_target_username_normalized == LStrip(Strip(TARGET_USERNAME), {"@"})

\* mutant: an unknown name selects the first profile of the table
get_moderation_profile_FirstProfile ==
    IF MODERATION_PROFILE \in DOMAIN profile_table
    THEN profile_table[MODERATION_PROFILE]
    ELSE profile_table["manipulative_coparent"]

\* Config.get_moderation_profile
get_moderation_profile ==
    IF MODERATION_PROFILE \in DOMAIN profile_table
    THEN profile_table[MODERATION_PROFILE]
    ELSE profile_table["standard"]

(***************************************************************************)
(* Outcomes of client.chat.completions.create: a reply whose content is a  *)
(* text (with the shape it spells) or None, or a raised exception.         *)
(***************************************************************************)
Reply(input) ==
    [kind |-> "reply", has_content |-> TRUE, content |-> input.raw,
     shape |-> input.shape, members |-> input.members, exc |-> "none"]
ReplyWithoutContent ==
    [kind |-> "reply", has_content |-> FALSE, content |-> <<>>,
     shape |-> "none", members |-> EmptyDict, exc |-> "none"]
ServiceError(e) ==
    [kind |-> "error", has_content |-> FALSE, content |-> <<>>,
     shape |-> "none", members |-> EmptyDict, exc |-> e]
NoCall ==
    [kind |-> "none", has_content |-> FALSE, content |-> <<>>,
     shape |-> "none", members |-> EmptyDict, exc |-> "none"]

ServiceErrors == {"RateLimitError", "APIConnectionError", "APITimeoutError", "APIError"}

\* the object replies the handler is driven with
ReplyAllowOptions ==
    {Absent} \cup { Present(w) : w \in {WTrue, WFalse, WNull, WStr("false")} }
ReplyReasonOptions ==
    {Absent} \cup { Present(w) : w \in {WStr("Legitimate scheduling discussion"), WStr("")} }
ReplyCategoryOptions ==
    {Absent} \cup { Present(w) : w \in {WStr("performative"), WEmptyList} }

ReplyInputs ==
    { ObjectInput(a, r, c, TRUE) :
        a \in ReplyAllowOptions, r \in ReplyReasonOptions, c \in ReplyCategoryOptions }
        \cup MalformedInputs \cup ValueInputs \cup ExtraObjectInputs

CallOutcomes ==
    { Reply(i) : i \in ReplyInputs } \cup {ReplyWithoutContent}
        \cup { ServiceError(e) : e \in ServiceErrors }

(***************************************************************************)
(* src/bot/filters.py: the classification pipeline                         *)
(***************************************************************************)
\* the try block of _classify_with_openai, given the outcome of its request
_classify_with_openai_try(outcome) ==
    IF outcome.kind = "error" THEN Raise(outcome.exc)
    ELSE IF ~outcome.has_content THEN Raise("AttributeError")
    ELSE from_json(StripTokens(outcome.content))

\* the except clauses of _classify_with_openai, in their order
_classify_with_openai_except(body) ==
    IF body.kind = "return" THEN body
    ELSE IF Catches({"RateLimitError"}, body.exc) THEN Raise("RuntimeError")
    ELSE IF Catches({"APIConnectionError"}, body.exc) THEN Raise("RuntimeError")
    ELSE IF Catches({"APITimeoutError"}, body.exc) THEN Raise("RuntimeError")
    ELSE IF Catches({"Exception"}, body.exc) THEN Raise("RuntimeError")
    ELSE body

\* _classify_with_openai
_classify_with_openai(text, outcome) ==
    IF ~client THEN Raise("RuntimeError")
    ELSE _classify_with_openai_except(_classify_with_openai_try(outcome))

(***************************************************************************)
(* src/bot/filters.py: the system prompt, as its lines; a line is the      *)
(* sequence of the fragments the f-string joins.                           *)
(***************************************************************************)
Line(text) == << text >>
BlankLine == << >>

\* the literal base_prompt starts with
base_prompt ==
    << Line("You are a co-parenting message moderator. Your job is to evaluate messages for appropriateness in a co-parenting logistics group."),
       BlankLine,
       Line("CORE RULES:"),
       Line("1. ALLOW messages about: children's health, education, scheduling, logistics, emergencies"),
       Line("2. BE PERMISSIVE: When in doubt or if context is unclear, ALLOW the message"),
       Line("3. Only BLOCK messages that are OBVIOUSLY inappropriate"),
       BlankLine,
       Line("RESPONSE FORMAT: Return ONLY valid JSON in this exact format:"),
       Line("{\"allow\": true/false, \"reason\": \"specific explanation\", \"category\": \"reason_category\"}"),
       BlankLine >>

\* "\n".join(f"- {behavior}" for behavior in profile["behaviors"])
behavior_text(profile) ==
    [ i \in 1..Len(profile.behaviors) |-> << "- ", profile.behaviors[i] >> ]

\* the f-string profile_prompt
profile_prompt(profile) ==
    << BlankLine,
       << "MODERATION PROFILE: ", profile.name >>,
       Line("Watch specifically for these behavioral patterns:") >>
    \o behavior_text(profile) \o
    << BlankLine,
       Line("When blocking, use specific language about what pattern was detected."),
       Line("Examples of targeted responses:"),
       Line("- \"This appears to be performative posturing rather than actionable co-parenting communication\""),
       Line("- \"This message deflects from logistics to emotional manipulation\""),
       Line("- \"This seems designed to craft a narrative rather than address children's needs\""),
       Line("- \"This appears to be grandstanding without substance about children's welfare\""),
       BlankLine >>

\* the literal appended last
closing_prompt ==
    << BlankLine,
       Line("EXAMPLES:"),
       Line("{\"allow\": true, \"reason\": \"Legitimate scheduling discussion\", \"category\": \"scheduling\"}"),
       Line("{\"allow\": false, \"reason\": \"This appears to be performative posturing rather than actionable co-parenting communication\", \"category\": \"performative\"}"),
       Line("{\"allow\": true, \"reason\": \"Unclear context but potentially legitimate\", \"category\": \"permissive\"}"),
       BlankLine,
       Line("Remember: When message intent is unclear or ambiguous, ALWAYS err on the side of allowing it.") >>

\* mutant: the profile block also quotes the profile's description
_build_system_prompt_WithDescription ==
    base_prompt
        \o (IF get_moderation_profile.behaviors # << >>
            THEN << Line(get_moderation_profile.description) >>
                     \o profile_prompt(get_moderation_profile)
            ELSE << >>)
        \o closing_prompt

\* _build_system_prompt
_build_system_prompt ==
    base_prompt
        \o (IF get_moderation_profile.behaviors # << >>
            THEN profile_prompt(get_moderation_profile)
            ELSE << >>)
        \o closing_prompt

PermissiveResponse ==
    ModerationResponse(PyBool(TRUE),
                       PyStr("Unable to evaluate - allowing due to permissive mode"),
                       PyStr("error_permissive"))
BlockingResponse ==
    ModerationResponse(PyBool(FALSE),
                       PyStr("Unable to evaluate message properly"),
                       PyStr("error_blocking"))

\* mutant: the flag is read negated
PermissiveMode_Inverted(profile) ==
    IF "permissive_mode" \in DOMAIN profile THEN ~profile.permissive_mode ELSE FALSE

\* profile.get("permissive_mode", True)
PermissiveMode(profile) ==
    IF "permissive_mode" \in DOMAIN profile THEN profile.permissive_mode ELSE TRUE

\* mutant: the handler of classify catches the OpenAI errors only
classify_except_OpenAIErrorsOnly(r) ==
    IF r.kind = "raise" /\ Catches({"OpenAIError"}, r.exc)
    THEN IF PermissiveMode(get_moderation_profile)
         THEN Return(PermissiveResponse)
         ELSE Return(BlockingResponse)
    ELSE r

\* mutant: a failure blocks whatever the profile says
classify_except_AlwaysBlocking(r) ==
    IF r.kind = "raise" /\ Catches({"Exception"}, r.exc)
    THEN Return(BlockingResponse)
    ELSE r

\* the except clause of classify, r being what _classify_with_openai
\* returned or raised
classify_except(r) ==
    IF r.kind = "raise" /\ Catches({"Exception"}, r.exc)
    THEN IF PermissiveMode(get_moderation_profile)
         THEN Return(PermissiveResponse)
         ELSE Return(BlockingResponse)
    ELSE r

\* classify
classify(text, outcome) == classify_except(_classify_with_openai(text, outcome))

(***************************************************************************)
(* src/bot/handlers.py                                                     *)
(***************************************************************************)
base_message ==
    "This group is for co-parenting logistics only (health, education, scheduling, logistics)."

category_messages ==
    [ performative |-> "Your message appeared to be performative posturing rather than actionable co-parenting communication.",
      manipulation |-> "Your message seemed to deflect from logistics to emotional manipulation.",
      narrative |-> "Your message appeared to craft a narrative rather than address children's needs.",
      grandstanding |-> "Your message seemed to be grandstanding without substance about children's welfare.",
      off_topic |-> "Your message was off-topic for this co-parenting logistics group.",
      emotional_pressure |-> "Your message used emotional pressure instead of focusing on factual logistics.",
      deflection |-> "Your message deflected from actual logistics to other topics." ]

GenericReasons == {"No reason provided", "Message could not be properly evaluated"}

\* the f-string "{base_message} {specific_reason}" as its three parts
WarningText(specific_reason) == << PyStr(base_message), PyStr(" "), specific_reason >>
NoText == << >>

\* _build_warning_message: `category in category_messages` hashes the
\* category, and is evaluated only for a generic reason
_build_warning_message(result) ==
    IF result.reason.type = "str" /\ result.reason.s \in GenericReasons
    THEN IF ~Hashable(result.category) THEN Raise("TypeError")
         ELSE IF result.category.type = "str"
                  /\ result.category.s \in DOMAIN category_messages
         THEN Return(WarningText(PyStr(category_messages[result.category.s])))
         ELSE Return(WarningText(result.reason))
    ELSE Return(WarningText(result.reason))

\* a chat update: update.message, message.text, message.from_user and its username
Update(has_message, text, has_from_user, username) ==
    [has_message |-> has_message, text |-> text,
     has_from_user |-> has_from_user, username |-> username]
NoUpdate == Update(FALSE, NoneStr, FALSE, NoneStr)

Texts == {NoneStr} \cup { Some(s) : s \in SeqsUpTo({" ", "a"}, MaxTextLen) }
Usernames == {NoneStr} \cup { Some(s) : s \in SeqsUpTo({"a", "A", "b"}, MaxNameLen) }

Updates ==
    {NoUpdate}
        \cup { Update(TRUE, t, TRUE, u) : t \in Texts, u \in Usernames }
        \cup { Update(TRUE, t, FALSE, NoneStr) : t \in Texts }

\* mutant: the sender is not compared with the target
ShouldClassify_AnySender(upd) ==
    /\ upd.has_message
    /\ ~upd.text.isNone /\ upd.text.s # <<>>
    /\ Strip(upd.text.s) # <<>>

\* handle_message up to the call of classify: TRUE when no early return is taken
ShouldClassify(upd) ==
    /\ upd.has_message
    /\ ~upd.text.isNone /\ upd.text.s # <<>>
    /\ upd.has_from_user /\ ~upd.username.isNone /\ upd.username.s # <<>>
    /\ Lower(upd.username.s) = Lower(get_target_username_normalized)
    /\ Strip(upd.text.s) # <<>>

\* mutant: the branch on the verdict is inverted
IsAllowed_Inverted(result) == ~Truthy(result.allow)

\* `if moderation_result.allow:`
IsAllowed(result) == Truthy(result.allow)

NotCalled == [kind |-> "none", value |-> PyNone, exc |-> "none"]

(***************************************************************************)
(* The bot: startup, then one update handled at a time (the application is *)
(* built without concurrent updates).                                      *)
(***************************************************************************)
NoInput == RawInput(<<>>, "none", EmptyDict)

HandlerIdle ==
    /\ pc = "idle"
    /\ update = NoUpdate
    /\ call = NoCall
    /\ requests = 0
    /\ moderation_result = NotCalled
    /\ deleted = "not_called"
    /\ sent = "not_called"
    /\ warning_text = NoText
    /\ handler_exc = "none"

\* no second update is being handled
Handler2Idle ==
    /\ pc2 = "idle"
    /\ update2 = NoUpdate
    /\ call2 = NoCall
    /\ requests2 = 0
    /\ moderation_result2 = NotCalled
    /\ deleted2 = "not_called"
    /\ sent2 = "not_called"
    /\ warning_text2 = NoText
    /\ handler_exc2 = "none"

\* no direct call of a configuration or prompt function has been made
NoPrompt == << >>
SetupIdle ==
    /\ profile_result = NotCalled
    /\ prompt = NoPrompt

\* the handlers create_application registers
RegisteredHandlers == {"handle_message", "start", "status", "profile", "handle_error"}

Init ==
    /\ BOT_TOKEN \in {"", "123:abc"}
    /\ OPENAI_API_KEY \in {"", "sk-key"}
    /\ TARGET_USERNAME \in TargetUsernames
    /\ MODERATION_PROFILE \in ProfileNames
    /\ profile_table \in ProfileTables
    /\ client \in BOOLEAN
    /\ phase = "start"
    /\ handlers = {}
    /\ HandlerIdle
    /\ json_input = NoInput
    /\ parsed = NotCalled
    /\ SetupIdle
    /\ Handler2Idle

\* main calling create_application: validate raises and main re-raises
\* ("aborted"), or the handlers are registered and main initialises, starts
\* and polls the application ("polling")
create_application ==
    /\ phase = "start"
    /\ phase' = IF validate.kind = "raise" THEN "aborted" ELSE "polling"
    /\ handlers' = IF validate.kind = "raise" THEN {} ELSE RegisteredHandlers
    /\ UNCHANGED << configVars, handlerVars, parserVars, setupVars, handler2Vars >>

\* mutant: a failed request is sent a second time
handle_message_try_Retry(outcome, r) ==
    /\ call' = outcome
    /\ requests' = IF ~client THEN 0 ELSE IF outcome.kind = "error" THEN 2 ELSE 1
    /\ moderation_result' = r
    /\ IF r.kind = "raise"
       THEN /\ pc' = "done"
            /\ handler_exc' = IF Catches({"Exception"}, r.exc) THEN "none" ELSE r.exc
       ELSE /\ pc' = IF IsAllowed(r.value) THEN "done" ELSE "delete_message"
            /\ UNCHANGED handler_exc

\* the try statement of handle_message up to its first await, r being what
\* classify returned or raised for the request outcome
handle_message_try(outcome, r) ==
    /\ call' = outcome
    /\ requests' = IF client THEN 1 ELSE 0
    /\ moderation_result' = r
    /\ IF r.kind = "raise"
       THEN /\ pc' = "done"
            /\ handler_exc' = IF Catches({"Exception"}, r.exc) THEN "none" ELSE r.exc
       ELSE /\ pc' = IF IsAllowed(r.value) THEN "done" ELSE "delete_message"
            /\ UNCHANGED handler_exc

\* handle_message for update upd, up to its first await; outcome is what the
\* classifier request yields (no request is made without a client)
handle_message(upd) ==
    /\ phase = "polling"
    /\ pc = "idle"
    /\ update' = upd
    /\ IF ~ShouldClassify(upd)
       THEN /\ pc' = "done"
            /\ UNCHANGED << call, requests, moderation_result, handler_exc >>
       ELSE \E outcome \in (IF client THEN CallOutcomes ELSE {NoCall}) :
                handle_message_try(outcome, classify(Strip(upd.text.s), outcome))
    /\ UNCHANGED << configVars, appVars, deleted, sent, warning_text, parserVars,
                    setupVars, handler2Vars >>

\* mutant: the deletion has a try block of its own, and the warning follows
\* whether or not it succeeded
delete_message_WarnAnyway(ok) ==
    /\ pc = "delete_message"
    /\ deleted' = IF ok THEN "ok" ELSE "failed"
    /\ IF _build_warning_message(moderation_result.value).kind = "raise"
       THEN /\ pc' = "done"
            /\ UNCHANGED warning_text
       ELSE /\ pc' = "send_message"
            /\ warning_text' = _build_warning_message(moderation_result.value).value
    /\ UNCHANGED << configVars, appVars, update, call, requests, moderation_result,
                    sent, handler_exc, parserVars, setupVars, handler2Vars >>

\* _delete_message_and_warn: bot.delete_message completes (ok) or raises;
\* after a deletion the warning text is built
delete_message(ok) ==
    /\ pc = "delete_message"
    /\ deleted' = IF ok THEN "ok" ELSE "failed"
    /\ IF ok
       THEN LET w == _build_warning_message(moderation_result.value)
            IN  IF w.kind = "raise"
                THEN /\ pc' = "done"
                     /\ handler_exc' = IF Catches({"Exception"}, w.exc)
                                       THEN "none" ELSE w.exc
                     /\ UNCHANGED warning_text
                ELSE /\ pc' = "send_message"
                     /\ warning_text' = w.value
                     /\ UNCHANGED handler_exc
       ELSE /\ pc' = "done"
            /\ handler_exc' = IF Catches({"Exception"}, "TelegramError")
                              THEN "none" ELSE "TelegramError"
            /\ UNCHANGED warning_text
    /\ UNCHANGED << configVars, appVars, update, call, requests, moderation_result,
                    sent, parserVars, setupVars, handler2Vars >>

\* mutant: send_message is awaited outside the try block
send_message_Propagates(ok) ==
    /\ pc = "send_message"
    /\ sent' = IF ok THEN "ok" ELSE "failed"
    /\ pc' = "done"
    /\ handler_exc' = IF ok THEN "none" ELSE "TelegramError"
    /\ UNCHANGED << configVars, appVars, update, call, requests, moderation_result,
                    deleted, warning_text, parserVars, setupVars, handler2Vars >>

\* _delete_message_and_warn: bot.send_message completes (ok) or raises
send_message(ok) ==
    /\ pc = "send_message"
    /\ sent' = IF ok THEN "ok" ELSE "failed"
    /\ pc' = "done"
    /\ handler_exc' = IF ok \/ Catches({"Exception"}, "TelegramError")
                      THEN "none" ELSE "TelegramError"
    /\ UNCHANGED << configVars, appVars, update, call, requests, moderation_result,
                    deleted, warning_text, parserVars, setupVars, handler2Vars >>

\* handle_message has returned; the application takes the next update
next_update ==
    /\ pc = "done"
    /\ handler_exc = "none"
    /\ pc' = "idle"
    /\ update' = NoUpdate
    /\ call' = NoCall
    /\ requests' = 0
    /\ moderation_result' = NotCalled
    /\ deleted' = "not_called"
    /\ sent' = "not_called"
    /\ warning_text' = NoText
    /\ UNCHANGED << configVars, appVars, handler_exc, parserVars, setupVars,
                    handler2Vars >>

Next ==
    \/ create_application
    \/ \E upd \in Updates : handle_message(upd)
    \/ \E ok \in BOOLEAN : delete_message(ok)
    \/ \E ok \in BOOLEAN : send_message(ok)
    \/ next_update

Spec == Init /\ [][Next]_vars

(***************************************************************************)
(* A direct call of ModerationResponse.from_json, as the setup test makes. *)
(***************************************************************************)
InitParser ==
    /\ BOT_TOKEN = "123:abc"
    /\ OPENAI_API_KEY = "sk-key"
    /\ TARGET_USERNAME = <<"a">>
    /\ MODERATION_PROFILE = "manipulative_coparent"
    /\ profile_table = MODERATION_PROFILES
    /\ client = TRUE
    /\ phase = "test"
    /\ handlers = {}
    /\ HandlerIdle
    /\ json_input \in RawInputs
    /\ parsed = NotCalled
    /\ SetupIdle
    /\ Handler2Idle

\* parsed_response = ModerationResponse.from_json(json_str)
call_from_json ==
    /\ phase = "test"
    /\ parsed = NotCalled
    /\ parsed' = from_json(json_input.raw)
    /\ UNCHANGED << configVars, appVars, handlerVars, json_input, setupVars,
                    handler2Vars >>

NextParser == call_from_json

SpecParser == InitParser /\ [][NextParser]_vars

(***************************************************************************)
(* Direct calls of Config.get_moderation_profile and _build_system_prompt, *)
(* as the setup test makes them: whatever the environment holds, and       *)
(* whether or not validate accepted it.                                    *)
(***************************************************************************)
InitSetup ==
    /\ BOT_TOKEN \in {"", "123:abc"}
    /\ OPENAI_API_KEY \in {"", "sk-key"}
    /\ TARGET_USERNAME \in TargetUsernames
    /\ MODERATION_PROFILE \in ProfileNames
    /\ profile_table \in ProfileTables
    /\ client \in BOOLEAN
    /\ phase = "test"
    /\ handlers = {}
    /\ HandlerIdle
    /\ json_input = NoInput
    /\ parsed = NotCalled
    /\ SetupIdle
    /\ Handler2Idle

\* profile = config.get_moderation_profile()
get_moderation_profile_call ==
    /\ phase = "test"
    /\ profile_result = NotCalled
    /\ profile_result' = Return(get_moderation_profile)
    /\ UNCHANGED << configVars, appVars, handlerVars, parserVars, prompt, handler2Vars >>

\* prompt = _build_system_prompt()
_build_system_prompt_call ==
    /\ phase = "test"
    /\ prompt = NoPrompt
    /\ prompt' = _build_system_prompt
    /\ UNCHANGED << configVars, appVars, handlerVars, parserVars, profile_result,
                    handler2Vars >>

NextSetup ==
    \/ get_moderation_profile_call
    \/ _build_system_prompt_call

SpecSetup == InitSetup /\ [][NextSetup]_vars

(***************************************************************************)
(* Two updates whose handlings overlap, as coroutines of one event loop:   *)
(* a handling runs up to its next await (bot.delete_message,               *)
(* bot.send_message) in one step, and the two interleave at the awaits.    *)
(* The shipped application awaits each handling before it takes the next   *)
(* update, which is the interleaving where one handling ends before the    *)
(* other begins.                                                           *)
(***************************************************************************)
\* the updates and request outcomes the second handling is driven with
TwoUpdates ==
    { Update(TRUE, Some(<<"a">>), TRUE, Some(<<"a">>)),
      Update(TRUE, Some(<<" ">>), TRUE, Some(<<"a">>)),
      Update(TRUE, Some(<<"a">>), TRUE, Some(<<"b">>)) }
TwoOutcomes ==
    { Reply(ObjectInput(Present(WTrue), Absent, Absent, TRUE)),
      Reply(ObjectInput(Present(WFalse), Absent, Present(WStr("performative")), TRUE)),
      Reply(ObjectInput(Present(WFalse), Present(WStr("Legitimate scheduling discussion")),
                        Present(WEmptyList), TRUE)),
      Reply(ObjectInput(Absent, Absent, Present(WEmptyList), TRUE)),
      ReplyWithoutContent,
      ServiceError("APITimeoutError") }

InitTwo ==
    /\ BOT_TOKEN = "123:abc"
    /\ OPENAI_API_KEY = "sk-key"
    /\ TARGET_USERNAME = <<"@", "A">>
    /\ profile_table \in ProfileTables
    /\ MODERATION_PROFILE \in DOMAIN profile_table
    /\ client \in BOOLEAN
    /\ phase = "polling"
    /\ handlers = RegisteredHandlers
    /\ HandlerIdle
    /\ json_input = NoInput
    /\ parsed = NotCalled
    /\ SetupIdle
    /\ Handler2Idle

\* mutant: the second handling takes the Decision a module-level cache holds
\* from the other handling
handle_message_try2_CachedDecision(outcome, r) ==
    /\ call2' = outcome
    /\ requests2' = IF client THEN 1 ELSE 0
    /\ moderation_result2' = IF moderation_result.kind = "return"
                             THEN moderation_result ELSE r
    /\ IF r.kind = "raise"
       THEN /\ pc2' = "done"
            /\ handler_exc2' = IF Catches({"Exception"}, r.exc) THEN "none" ELSE r.exc
       ELSE /\ pc2' = IF IsAllowed(r.value) THEN "done" ELSE "delete_message"
            /\ UNCHANGED handler_exc2

\* the try statement of handle_message up to its first await, for the
\* second update
handle_message_try2(outcome, r) ==
    /\ call2' = outcome
    /\ requests2' = IF client THEN 1 ELSE 0
    /\ moderation_result2' = r
    /\ IF r.kind = "raise"
       THEN /\ pc2' = "done"
            /\ handler_exc2' = IF Catches({"Exception"}, r.exc) THEN "none" ELSE r.exc
       ELSE /\ pc2' = IF IsAllowed(r.value) THEN "done" ELSE "delete_message"
            /\ UNCHANGED handler_exc2

\* handle_message for the second update, up to its first await
handle_message2(upd) ==
    /\ phase = "polling"
    /\ pc2 = "idle"
    /\ update2' = upd
    /\ IF ~ShouldClassify(upd)
       THEN /\ pc2' = "done"
            /\ UNCHANGED << call2, requests2, moderation_result2, handler_exc2 >>
       ELSE \E outcome \in (IF client THEN TwoOutcomes ELSE {NoCall}) :
                handle_message_try2(outcome, classify(Strip(upd.text.s), outcome))
    /\ UNCHANGED << configVars, appVars, handlerVars, parserVars, setupVars,
                    deleted2, sent2, warning_text2 >>

\* _delete_message_and_warn for the second update: bot.delete_message
\* completes (ok) or raises; after a deletion the warning text is built
delete_message2(ok) ==
    /\ pc2 = "delete_message"
    /\ deleted2' = IF ok THEN "ok" ELSE "failed"
    /\ IF ok
       THEN LET w == _build_warning_message(moderation_result2.value)
            IN  IF w.kind = "raise"
                THEN /\ pc2' = "done"
                     /\ handler_exc2' = IF Catches({"Exception"}, w.exc)
                                        THEN "none" ELSE w.exc
                     /\ UNCHANGED warning_text2
                ELSE /\ pc2' = "send_message"
                     /\ warning_text2' = w.value
                     /\ UNCHANGED handler_exc2
       ELSE /\ pc2' = "done"
            /\ handler_exc2' = IF Catches({"Exception"}, "TelegramError")
                               THEN "none" ELSE "TelegramError"
            /\ UNCHANGED warning_text2
    /\ UNCHANGED << configVars, appVars, handlerVars, parserVars, setupVars,
                    update2, call2, requests2, moderation_result2, sent2 >>

\* _delete_message_and_warn for the second update: bot.send_message
\* completes (ok) or raises
send_message2(ok) ==
    /\ pc2 = "send_message"
    /\ sent2' = IF ok THEN "ok" ELSE "failed"
    /\ pc2' = "done"
    /\ handler_exc2' = IF ok \/ Catches({"Exception"}, "TelegramError")
                       THEN "none" ELSE "TelegramError"
    /\ UNCHANGED << configVars, appVars, handlerVars, parserVars, setupVars,
                    update2, call2, requests2, moderation_result2, deleted2,
                    warning_text2 >>

NextTwo ==
    \/ \E upd \in TwoUpdates : handle_message(upd)
    \/ \E ok \in BOOLEAN : delete_message(ok)
    \/ \E ok \in BOOLEAN : send_message(ok)
    \/ \E upd \in TwoUpdates : handle_message2(upd)
    \/ \E ok \in BOOLEAN : delete_message2(ok)
    \/ \E ok \in BOOLEAN : send_message2(ok)

SpecTwo == InitTwo /\ [][NextTwo]_vars

(***************************************************************************)
(* Properties.                                                             *)
(***************************************************************************)
Classified == moderation_result.kind # "none"
Returned == moderation_result.kind = "return"
FromJsonCalled == parsed.kind # "none"

\* the three Decisions the code builds itself, written out
FixedParsingError ==
    [allow |-> PyBool(FALSE),
     reason |-> PyStr("Message could not be properly evaluated"),
     category |-> PyStr("parsing_error")]
FixedErrorPermissive ==
    [allow |-> PyBool(TRUE),
     reason |-> PyStr("Unable to evaluate - allowing due to permissive mode"),
     category |-> PyStr("error_permissive")]
FixedErrorBlocking ==
    [allow |-> PyBool(FALSE),
     reason |-> PyStr("Unable to evaluate message properly"),
     category |-> PyStr("error_blocking")]

\* C1: classify is total: whatever the request yields (any reply, any service
\* error) and also without a client, classify returns a Decision and raises
\* nothing.
C1_ClassifyTotal ==
    Classified =>
        /\ moderation_result.kind = "return"
        /\ moderation_result.exc = "none"
        /\ DOMAIN moderation_result.value = {"allow", "reason", "category"}

\* C1 witness: the request timed out and classify still returned a Decision
C1_Witness ==
    /\ call.kind = "error" /\ call.exc = "APITimeoutError"
    /\ moderation_result.kind = "return"

\* C2 (as claimed): a reply that arrived and is not a well-formed JSON object
\* yields the fixed fail-closed Decision, whatever the profile's flag.
C2_UnparsedReplyFailsClosed ==
    (Classified /\ call.kind = "reply" /\ call.has_content
        /\ call.shape \in {"value", "invalid"})
        => /\ moderation_result.kind = "return"
           /\ moderation_result.value = FixedParsingError

\* C3: after a transport failure of any kind classify returns the permissive
\* Decision when the active profile's flag is true and the blocking Decision
\* when it is false.
C3_TransportFailureFollowsFlag ==
    (Classified /\ call.kind = "error" /\ MODERATION_PROFILE \in DOMAIN profile_table)
        => LET profile == profile_table[MODERATION_PROFILE]
           IN  /\ moderation_result.kind = "return"
               /\ ("permissive_mode" \in DOMAIN profile /\ profile.permissive_mode)
                      => moderation_result.value = FixedErrorPermissive
               /\ ("permissive_mode" \in DOMAIN profile /\ ~profile.permissive_mode)
                      => moderation_result.value = FixedErrorBlocking

\* C3 witness: a rate-limit failure under a profile whose flag is false
C3_Witness ==
    /\ call.kind = "error" /\ call.exc = "RateLimitError"
    /\ MODERATION_PROFILE = "strict"
    /\ moderation_result.kind = "return"
    /\ moderation_result.value.category = PyStr("error_blocking")

\* C4 (as claimed): from_json does not raise on valid JSON whose top-level
\* value is not an object; it returns the fixed fallback Decision.
C4_NonObjectReturnsFallback ==
    (FromJsonCalled /\ json_input.shape = "value")
        => /\ parsed.kind = "return"
           /\ parsed.value = FixedParsingError

C6_ObjectMembersWithDefaults ==
    (FromJsonCalled /\ json_input.shape = "object")
        => LET m == json_input.members
           IN  /\ parsed.kind = "return"
               /\ parsed.value.allow =
                      (IF "allow" \in DOMAIN m THEN m["allow"] ELSE PyBool(FALSE))
               /\ parsed.value.reason =
                      (IF "reason" \in DOMAIN m THEN m["reason"]
                       ELSE PyStr("No reason provided"))
               /\ parsed.value.category =
                      (IF "category" \in DOMAIN m THEN m["category"] ELSE PyStr(""))
               /\ (Squeeze(json_input.raw) = <<LBRACE, RBRACE>>)
                      => parsed.value = [allow |-> PyBool(FALSE),
                                         reason |-> PyStr("No reason provided"),
                                         category |-> PyStr("")]

\* C6 witness: from_json has been applied to an object that gives a reason
\* and leaves out allow and category
C6_Witness ==
    /\ json_input.shape = "object"
    /\ DOMAIN json_input.members = {"reason"}
    /\ parsed.kind = "return"
    /\ parsed.value.reason = PyStr("Test reason")

\* C7 (as claimed): every Decision classify returns is well-formed: allow is
\* a boolean, reason a non-empty string, category a string.
C7_DecisionWellFormed ==
    Returned =>
        /\ moderation_result.value.allow.type = "bool"
        /\ moderation_result.value.reason.type = "str"
        /\ moderation_result.value.reason.s # ""
        /\ moderation_result.value.category.type = "str"

\* C8 (as claimed): once the handler has finished with a message that
\* classify blocked (allow = false), a warning has been sent to the chat,
\* whatever delete_message and send_message did.
C8_BlockedMessageWarned ==
    (pc = "done" /\ Returned /\ moderation_result.value.allow = PyBool(FALSE))
        => sent # "not_called"

\* C9: for a Decision with allow = true, the permissive error fallback
\* included, handle_message neither deletes the message nor sends a warning.
C9_AllowedNeverTouched ==
    (Returned /\ moderation_result.value.allow = PyBool(TRUE))
        => /\ deleted = "not_called"
           /\ sent = "not_called"
           /\ warning_text = NoText
           /\ pc \notin {"delete_message", "send_message"}

\* C9 witness: the handler has finished with a message allowed only by the
\* permissive error fallback
C9_Witness ==
    /\ pc = "done"
    /\ Returned
    /\ moderation_result.value.allow = PyBool(TRUE)
    /\ moderation_result.value.category = PyStr("error_permissive")

\* the text has a character that is not whitespace
HasVisibleText(upd) ==
    /\ upd.has_message /\ ~upd.text.isNone
    /\ \E i \in 1..Len(upd.text.s) : upd.text.s[i] # " "

\* TARGET_USERNAME[k..j] is the target username without its surrounding
\* whitespace (which leaves i..j) and without the @ signs that lead i..j
IsNormalisedSpan(i, j, k) ==
    LET T == TARGET_USERNAME
    IN  /\ i <= j + 1
        /\ \A x \in 1..(i - 1) : T[x] = " "
        /\ \A x \in (j + 1)..Len(T) : T[x] = " "
        /\ (i <= j) => (T[i] # " " /\ T[j] # " ")
        /\ i <= k /\ k <= j + 1
        /\ \A x \in i..(k - 1) : T[x] = "@"
        /\ (k <= j) => T[k] # "@"

\* the sender has a username equal to n up to the case of its letters
SenderIs(upd, n) ==
    /\ upd.has_message /\ upd.has_from_user /\ ~upd.username.isNone
    /\ Len(upd.username.s) = Len(n)
    /\ \A i \in 1..Len(n) : LowerChar(upd.username.s[i]) = LowerChar(n[i])

\* C10: a message is classified, deleted or answered with a warning only if
\* it carries non-empty text after stripping and its sender's username equals
\* the normalised target username ignoring case.
C10_OnlyTargetWithText ==
    (Classified \/ requests > 0 \/ deleted # "not_called" \/ sent # "not_called"
        \/ pc \in {"delete_message", "send_message"})
        => /\ HasVisibleText(update)
           /\ \E i \in 1..(Len(TARGET_USERNAME) + 1), j \in 0..Len(TARGET_USERNAME),
                    k \in 1..(Len(TARGET_USERNAME) + 1) :
                  /\ IsNormalisedSpan(i, j, k)
                  /\ SenderIs(update, SubSeq(TARGET_USERNAME, k, j))

\* C10 witness: the target is written " @ab " and a message of sender "Ab"
\* has been classified
C10_Witness ==
    /\ TARGET_USERNAME = <<" ", "@", "a", "b", " ">>
    /\ update.username = Some(<<"A", "b">>)
    /\ Classified

\* C11 (as claimed): once the blocked message is deleted, the warning built
\* from the Decision is the scope statement, a space and a specific reason:
\* the table's explanation when the reason is exactly one of the two generic
\* strings and the category is one of the seven table keys, and otherwise the
\* Decision's reason as it is.
C11_WarningFormat ==
    (deleted = "ok" /\ Returned) =>
        LET d == moderation_result.value
            generic == d.reason \in { PyStr("No reason provided"),
                                      PyStr("Message could not be properly evaluated") }
            keyed == d.category \in
                         { PyStr(k) : k \in { "performative", "manipulation", "narrative",
                                              "grandstanding", "off_topic",
                                              "emotional_pressure", "deflection" } }
        IN  warning_text =
                << PyStr(base_message), PyStr(" "),
                   IF generic /\ keyed THEN PyStr(category_messages[d.category.s])
                                       ELSE d.reason >>

C13_ConfigFailureAborts ==
    LET invalid == \/ BOT_TOKEN = ""
                   \/ OPENAI_API_KEY = ""
                   \/ MODERATION_PROFILE \notin DOMAIN profile_table
    IN  /\ phase # "start" => (phase = "aborted" <=> invalid)
        /\ phase = "polling" => handlers # {}
        /\ invalid =>
               /\ phase \in {"start", "aborted"}
               /\ handlers = {}
               /\ pc = "idle" /\ update = NoUpdate
               /\ ~Classified /\ requests = 0

\* C13 witness: both credentials are set, the profile name is not in the
\* shipped table, and startup was aborted
C13_Witness ==
    /\ phase = "aborted"
    /\ BOT_TOKEN # "" /\ OPENAI_API_KEY # ""
    /\ profile_table = MODERATION_PROFILES
    /\ MODERATION_PROFILE = "strict"
    /\ handlers = {}

\* C14: a call of get_moderation_profile returns, and never raises: for a
\* name that is a key of the profile table it returns the profile registered
\* under that name, for any other name the built-in "standard" profile, whose
\* behaviour list is empty and whose permissive_mode is true; and no step
\* changes the profile table.
C14_ProfileLookup ==
    /\ [](profile_result.kind # "none" =>
              /\ profile_result.kind = "return"
              /\ profile_result.exc = "none"
              /\ MODERATION_PROFILE \in DOMAIN profile_table
                     => profile_result.value = profile_table[MODERATION_PROFILE]
              /\ MODERATION_PROFILE \notin DOMAIN profile_table
                     => /\ profile_result.value.name = "Standard Moderation"
                        /\ profile_result.value.behaviors = << >>
                        /\ profile_result.value.permissive_mode = TRUE
                        /\ profile_result.value = profile_table["standard"])
    /\ [][profile_table' = profile_table]_vars

\* C14 witness: the configured name is in no table and the call returned the
\* shipped "standard" profile
C14_Witness ==
    /\ MODERATION_PROFILE = "unknown"
    /\ profile_result.kind = "return"
    /\ profile_result.value = MODERATION_PROFILES.standard

\* C15: the prompt built for the active profile is the fixed preamble, then,
\* if and only if the profile's behaviour list is not empty, the profile block
\* (the profile's name and one "- " line per behaviour, in the list's order),
\* then the fixed closing block ending with the instruction to allow when the
\* intent is unclear; it is determined by the name and the behaviour list, and
\* the profile's description occurs nowhere in it.
C15_PromptStructure ==
    prompt # NoPrompt =>
        LET profile == IF MODERATION_PROFILE \in DOMAIN profile_table
                       THEN profile_table[MODERATION_PROFILE]
                       ELSE profile_table["standard"]
            n == Len(profile.behaviors)
            pre == Len(base_prompt)
            clo == Len(closing_prompt)
            block == SubSeq(prompt, pre + 1, Len(prompt) - clo)
        IN  /\ Len(prompt) >= pre + clo
            /\ SubSeq(prompt, 1, pre) = base_prompt
            /\ prompt[1] = << "You are a co-parenting message moderator. Your job is to evaluate messages for appropriateness in a co-parenting logistics group." >>
            /\ SubSeq(prompt, Len(prompt) - clo + 1, Len(prompt)) = closing_prompt
            /\ prompt[Len(prompt)] = << "Remember: When message intent is unclear or ambiguous, ALWAYS err on the side of allowing it." >>
            /\ n = 0 <=> block = << >>
            /\ n > 0 =>
                   /\ Len(block) = n + 11
                   /\ block[2] = << "MODERATION PROFILE: ", profile.name >>
                   /\ \A i \in 1..n : block[3 + i] = << "- ", profile.behaviors[i] >>
                   /\ \A i \in (1..Len(block)) \ (2..(3 + n)) : Len(block[i]) <= 1
            /\ \A i \in 1..Len(prompt) : \A j \in 1..Len(prompt[i]) :
                   prompt[i][j] # profile.description

\* C15 witness: a prompt built for the shipped profile with eight behaviours
C15_Witness ==
    /\ MODERATION_PROFILE = "manipulative_coparent"
    /\ Len(prompt) = Len(base_prompt) + 19 + Len(closing_prompt)
    /\ prompt[Len(base_prompt) + 4] = << "- ", "performative posturing without follow-through" >>
    /\ prompt[Len(base_prompt) + 11] = << "- ", "grandstanding or virtue signaling without substance" >>

\* C15 witness of the other case: a profile without behaviours gets the
\* preamble and the closing block only
C15_WitnessNoBlock ==
    /\ MODERATION_PROFILE = "standard"
    /\ prompt = base_prompt \o closing_prompt

\* C16: bot.send_message is called only after bot.delete_message succeeded
\* for the message being handled: the warning is awaited or was attempted
\* only in a handling whose deletion succeeded, and when the deletion failed
\* no warning text is built and nothing is sent.
C16_WarnOnlyAfterDelete ==
    /\ sent # "not_called" => deleted = "ok"
    /\ pc = "send_message" => deleted = "ok" /\ sent = "not_called"
    /\ deleted = "failed" =>
           /\ sent = "not_called"
           /\ warning_text = NoText
           /\ pc = "done"
    /\ deleted = "not_called" => sent = "not_called" /\ warning_text = NoText

\* C16 witness: the message was deleted and then the warning was sent
C16_Witness ==
    /\ deleted = "ok"
    /\ sent = "ok"
    /\ warning_text # NoText

\* C16 witness of the failing deletion: the handler finished without a send
C16_WitnessDeleteFailed ==
    /\ deleted = "failed"
    /\ pc = "done"
    /\ sent = "not_called"

\* C17: no exception leaves handle_message for a message of the target
\* participant: classify raised nothing into it, a failure of delete_message
\* or send_message (or of building the warning) is caught, the handler ends
\* normally and the application, still polling, can take the next update.
C17_HandlerNeverRaises ==
    /\ handler_exc = "none"
    /\ moderation_result.kind # "raise"
    /\ pc = "done" => phase = "polling"
    /\ (deleted = "failed" \/ sent # "not_called") => pc = "done"

\* C17 witness: send_message failed after a deletion and the handler is done
\* with no exception
C17_Witness ==
    /\ Classified
    /\ deleted = "ok"
    /\ sent = "failed"
    /\ pc = "done"
    /\ handler_exc = "none"

\* the outcome a handling shows when it runs alone: its position p, update
\* upd, request outcome c, Decision r, deletion d, send s and warning text w
\* are fixed by the update, the request outcome and the outcomes of its own
\* transport calls
AloneOutcome(p, upd, c, r, d, s, w) ==
    LET blocked == r.kind = "return" /\ ~Truthy(r.value.allow)
        built == IF blocked THEN _build_warning_message(r.value) ELSE Raise("none")
    IN  /\ p = "idle" => upd = NoUpdate /\ c = NoCall /\ r = NotCalled
        /\ p # "idle" =>
               r = IF ShouldClassify(upd) THEN classify(Strip(upd.text.s), c)
                                          ELSE NotCalled
        /\ blocked <=> (p = "delete_message" \/ d # "not_called")
        /\ p = "delete_message" => d = "not_called"
        /\ s # "not_called" => d = "ok"
        /\ (d = "ok" /\ built.kind = "return")
               <=> (p = "send_message" \/ s # "not_called")
        /\ w = IF d = "ok" /\ built.kind = "return" THEN built.value ELSE NoText
        /\ p = "done" <=> \/ (~blocked /\ p # "idle")
                          \/ d = "failed"
                          \/ (d = "ok" /\ built.kind = "raise")
                          \/ s # "not_called"

\* C18: however the handlings of two messages interleave, each message's
\* Decision, deletion, warning text and send are those of handling that
\* message alone with the same request and transport outcomes, and no step
\* of either handling changes the configuration both read.
C18_IndependentHandling ==
    /\ AloneOutcome(pc, update, call, moderation_result, deleted, sent, warning_text)
    /\ AloneOutcome(pc2, update2, call2, moderation_result2, deleted2, sent2,
                    warning_text2)
    /\ handler_exc = "none" /\ handler_exc2 = "none"
    /\ phase = "polling" /\ handlers = RegisteredHandlers

\* C18 witness: the first message was blocked and is awaiting its warning
\* while the second one, classified in between, was allowed and is done
C18_Witness ==
    /\ pc = "send_message" /\ deleted = "ok"
    /\ pc2 = "done" /\ moderation_result2.kind = "return"
    /\ Truthy(moderation_result2.value.allow)
    /\ moderation_result.value # moderation_result2.value

\* C19: with the shipped profile table, a request that failed (a service
\* error, a reply without content) or could not be made (no client) never
\* blocks the message: classify returned the permissive Decision, the
\* handler is done without calling delete_message or send_message, and the
\* "error_blocking" Decision is returned in no state; and for every
\* configured name, unknown ones included, the except clause of classify
\* yields the permissive Decision.
C19_ShippedProfilesFailOpen ==
    profile_table = MODERATION_PROFILES =>
        /\ (Classified /\ (call.kind = "error" \/ ~client
                              \/ (call.kind = "reply" /\ ~call.has_content))) =>
               /\ Returned
               /\ moderation_result.value = FixedErrorPermissive
               /\ moderation_result.value.allow = PyBool(TRUE)
               /\ pc = "done"
               /\ deleted = "not_called" /\ sent = "not_called"
               /\ warning_text = NoText
        /\ Classified =>
               /\ moderation_result.value # FixedErrorBlocking
               /\ moderation_result.value.category # PyStr("error_blocking")
        /\ classify_except(Raise("RuntimeError")) = Return(FixedErrorPermissive)

\* C19 witness: under the shipped table and without a client a message of
\* the target was classified, allowed and left alone
C19_Witness ==
    /\ profile_table = MODERATION_PROFILES
    /\ ~client
    /\ Classified /\ requests = 0
    /\ moderation_result.value = FixedErrorPermissive
    /\ pc = "done" /\ deleted = "not_called"
=============================================================================
